---- MODULE Spec2Model ----
(***************************************************************************)
(* StaticSite (packages/resources/src/StaticSite.ts): one site followed    *)
(* over successive runs of the user's program.  A run creates the props,   *)
(* may hand the same props objects to another StaticSite first, constructs *)
(* the site (placeholders, build, packaging, deploy id) and then deploys   *)
(* the resources the constructor declared: the CloudFront distribution     *)
(* whose origin path is the deploy id, and the custom resource that        *)
(* unpacks the archives under the deploy id prefix of the bucket.          *)
(***************************************************************************)
EXTENDS Naturals, Sequences, FiniteSets, TLC

VARIABLES
  pc,             \* position of the run: idle, program, sibling, synth, error,
                  \* activated, unpack, staged, uploaded, published, failed
  runs,           \* runs started so far
  root,           \* the App: [local, skipBuild]
  environment,    \* the object the caller passes as props.environment
  replaceValues,  \* the array the caller passes as props.replaceValues
  declared,       \* what the caller wrote into those two objects
  call,           \* what the constructor was entered with
  zipDir,         \* files of zipPath: part index -> fingerprint of partN.zip
  this,           \* the constructed site: assets, deployId, replaceValues
  sites,          \* the last two constructed sites, latest first
  bucket,         \* destination bucket: prefix -> namespace
  originPath,     \* origin path of the distribution (the live read path)
  published       \* the last two published deploys, latest first

vars == <<pc, runs, root, environment, replaceValues, declared, call, zipDir,
          this, sites, bucket, originPath, published>>

-----------------------------------------------------------------------------
(* Bounds and input sets *)

MaxParts == 2
MaxRuns == 2

Keys == {"API", "KEY"}
Values == {"x", "y"}
Fingerprints == {"0a", "b1"}
StubHash == "5f"

Undefined == [def |-> FALSE, val |-> <<>>]
Obj(v) == [def |-> TRUE, val |-> v]

SeqsUpTo(S, n) == UNION {[1..k -> S] : k \in 0..n}

\* objects with distinct keys, in insertion order
Entries(keys, values) ==
  {s \in SeqsUpTo([key : keys, value : values], Cardinality(keys)) :
     \A i, j \in 1..Len(s) : i # j => s[i].key # s[j].key}

CallerRule == [files |-> "*.css", search |-> "__VERSION__", replace |-> "1.0"]

AllEnvironments == {Undefined} \cup {Obj(e) : e \in Entries(Keys, Values)}
AllReplaceValues == {Undefined, Obj(<<>>), Obj(<<CallerRule>>)}
AllBundles == SeqsUpTo(Fingerprints, MaxParts)

FewEnvironments == {Undefined, Obj(<<[key |-> "API", value |-> "x"]>>)}
FewReplaceValues == {Undefined}
FewBundles == {s \in AllBundles : \A i \in 1..Len(s) : s[i] = IF i = 1 THEN "0a" ELSE "b1"}

\* what the constructor finds on disk and how the external commands end
SiteDirs(bundles) ==
  [pathExists : {FALSE}, buildOk : {TRUE}, outputExists : {FALSE},
   bundles : {<<>>}, archiverOk : {TRUE}, written : {0}]
  \cup [pathExists : {TRUE}, buildOk : {TRUE}, outputExists : {FALSE},
        bundles : {<<>>}, archiverOk : {TRUE}, written : {0}]
  \cup [pathExists : {TRUE}, buildOk : {FALSE}, outputExists : BOOLEAN,
        bundles : {<<>>}, archiverOk : {TRUE}, written : {0}]
  \cup {d \in [pathExists : {TRUE}, buildOk : {TRUE}, outputExists : {TRUE},
               bundles : bundles, archiverOk : BOOLEAN, written : 0..MaxParts] :
          IF d.archiverOk /\ d.bundles # <<>>
          THEN d.written = Len(d.bundles)
          ELSE d.written < Len(d.bundles) \/ d.written = 0}

-----------------------------------------------------------------------------
(* The constructor *)

Token(key) == "{{ " \o key \o " }}"

\* this.environment[key] = token, for every entry
Placeholders(entries) ==
  [i \in 1..Len(entries) |-> [key |-> entries[i].key, value |-> Token(entries[i].key)]]

\* the rules as they would be with the replacement read back from this.environment
EnvironmentRulesReadBack(entries) ==
  [i \in 1..2 * Len(entries) |->
     LET e == entries[(i + 1) \div 2]
     IN  [files |-> IF i % 2 = 1 THEN "**/*.js" ELSE "index.html",
          search |-> Token(e.key),
          replace |-> Token(e.key)]]

\* the two rules pushed for every entry
EnvironmentRules(entries) ==
  [i \in 1..2 * Len(entries) |->
     LET e == entries[(i + 1) \div 2]
     IN  [files |-> IF i % 2 = 1 THEN "**/*.js" ELSE "index.html",
          search |-> Token(e.key),
          replace |-> e.value]]

\* props.x || default
OrElse(prop, default) == IF prop.def THEN prop.val ELSE default

NoFiles == [i \in {} |-> ""]

\* fs.removeSync(zipPath)
\* zipPath as it would be without the removeSync
ClearZipPathSkipped(dir) == dir

ClearZipPath(dir) == NoFiles

\* archiver.js: writes part0.zip .. part(n-1).zip; an empty tree is an error
ArchiverFails(site) == ~site.archiverOk \/ site.bundles = <<>>

ArchiverWrites(dir, site) ==
  [i \in DOMAIN dir \cup 0..(site.written - 1) |->
     IF i < site.written THEN site.bundles[i + 1] ELSE dir[i]]

\* for (partId = 0; ; partId++) { if (!exists) break; assets.push(...) }
RECURSIVE CollectParts(_, _)
CollectParts(dir, partId) ==
  IF partId \notin DOMAIN dir THEN <<>>
  ELSE <<dir[partId]>> \o CollectParts(dir, partId + 1)

Built(assets, dir) == [error |-> "", assets |-> assets, zipDir |-> dir]
Thrown(message, dir) == [error |-> message, assets |-> <<>>, zipDir |-> dir]

\* the catch as it would be without the throw
PackagingSwallowed(dir) == Built(CollectParts(dir, 0), dir)

PackagingThrows(dir) == Thrown("There was a problem generating the StaticSite package.", dir)

BuildApp(isSstStart, skipBuild, site, dir) ==
  IF isSstStart \/ skipBuild THEN Built(<<StubHash>>, dir)
  ELSE IF ~site.pathExists THEN Thrown("No path found", dir)
  ELSE IF ~site.buildOk THEN Thrown("There was a problem building the StaticSite.", dir)
  ELSE IF ~site.outputExists THEN Thrown("No build output found", dir)
  ELSE LET written == ArchiverWrites(ClearZipPath(dir), site)
       IN  IF ArchiverFails(site) THEN PackagingThrows(written)
           ELSE Built(CollectParts(written, 0), written)

\* assets.map(({ assetHash }) => assetHash).join("")
RECURSIVE Join(_)
Join(hashes) == IF hashes = <<>> THEN "" ELSE Head(hashes) \o Join(Tail(hashes))

\* md5 digest, collision free: the digest is named by what was hashed
Md5(text) == "md5(" \o text \o ")"

\* the hash as it would be over the first asset alone
AssetsHashOfFirst(assets) == Md5(IF assets = <<>> THEN "" ELSE Head(assets))

AssetsHash(assets) == Md5(Join(assets))

\* the id as it would be with the stub asset taken for local development
DeployIdStubLive(isSstStart, assetsHash) ==
  IF isSstStart \/ assetsHash = Md5(StubHash) THEN "deploy-live" ELSE "deploy-" \o assetsHash

\* the id as it would be if it were stamped per run instead of per content
DeployIdPerRun(isSstStart, assetsHash) ==
  IF isSstStart THEN "deploy-live" ELSE "deploy-" \o assetsHash \o "-" \o ToString(runs)

DeployId(isSstStart, assetsHash) ==
  IF isSstStart THEN "deploy-live" ELSE "deploy-" \o assetsHash

NoSite == [assets |-> <<>>, deployId |-> "", replaceValues |-> <<>>]

-----------------------------------------------------------------------------
(* Initial state *)

NoCall == [environment |-> Undefined, replaceValues |-> Undefined,
           site |-> CHOOSE d \in SiteDirs({<<>>}) : ~d.pathExists,
           zipDir |-> NoFiles]

Init ==
  /\ pc = "idle"
  /\ runs = 0
  /\ root = [local |-> FALSE, skipBuild |-> FALSE]
  /\ environment = Undefined
  /\ replaceValues = Undefined
  /\ declared = [environment |-> Undefined, replaceValues |-> Undefined]
  /\ call = NoCall
  /\ zipDir = NoFiles
  /\ this = NoSite
  /\ sites = <<>>
  /\ bucket = [p \in {} |-> 0]
  /\ originPath = ""
  /\ published = <<>>

-----------------------------------------------------------------------------
(* The user's program *)

\* the record put in front of a history that keeps two entries
Latest(record, history) ==
  IF history = <<>> THEN <<record>> ELSE <<record, history[1]>>

\* the program starts: App flags and fresh props objects
StartRun(environments, rules) ==
  /\ pc \in {"idle", "synth", "error", "published", "failed"}
  /\ runs < MaxRuns
  /\ \E local \in BOOLEAN, skip \in BOOLEAN, env \in environments, rv \in rules :
       /\ root' = [local |-> local, skipBuild |-> skip]
       /\ environment' = env
       /\ replaceValues' = rv
       /\ declared' = [environment |-> env, replaceValues |-> rv]
  /\ runs' = runs + 1
  /\ pc' = "program"
  /\ call' = NoCall
  /\ this' = NoSite
  /\ UNCHANGED <<zipDir, sites, bucket, originPath, published>>

\* lines 96-118 run for another StaticSite given the same props objects
SiblingSite ==
  /\ pc = "program"
  /\ LET entries == OrElse(environment, <<>>)
     IN  /\ environment' = IF environment.def THEN Obj(Placeholders(entries)) ELSE environment
         /\ replaceValues' = IF replaceValues.def
                             THEN Obj(replaceValues.val \o EnvironmentRules(entries))
                             ELSE replaceValues
  /\ pc' = "sibling"
  /\ UNCHANGED <<runs, root, declared, call, zipDir, this, sites, bucket, originPath, published>>

\* new StaticSite(scope, id, props)
Constructor(bundles) ==
  /\ pc \in {"program", "sibling"}
  /\ \E site \in SiteDirs(bundles) :
       LET entries == OrElse(environment, <<>>)
           rules == OrElse(replaceValues, <<>>) \o EnvironmentRules(entries)
           app == BuildApp(root.local, root.skipBuild, site, zipDir)
           deployId == DeployId(root.local, AssetsHash(app.assets))
       IN  /\ call' = [environment |-> environment, replaceValues |-> replaceValues,
                       site |-> site, zipDir |-> zipDir]
           /\ environment' = IF environment.def THEN Obj(Placeholders(entries)) ELSE environment
           /\ replaceValues' = IF replaceValues.def THEN Obj(rules) ELSE replaceValues
           /\ zipDir' = app.zipDir
           /\ IF app.error = ""
              THEN /\ this' = [assets |-> app.assets, deployId |-> deployId,
                               replaceValues |-> rules]
                   /\ sites' = Latest([assets |-> app.assets, deployId |-> deployId,
                                       local |-> root.local], sites)
                   /\ pc' = "synth"
              ELSE /\ this' = NoSite
                   /\ sites' = sites
                   /\ pc' = "error"
  /\ UNCHANGED <<runs, root, declared, bucket, originPath, published>>

-----------------------------------------------------------------------------
(* The deployment of what the constructor declared *)

Files == {"main.js", "index.html", "app.css"}

Matches(pattern, file) ==
  \/ pattern = "**/*.js" /\ file = "main.js"
  \/ pattern = "index.html" /\ file = "index.html"
  \/ pattern = "*.css" /\ file = "app.css"

\* the places of the unpacked files where a searched text stands
Slots == {Token(k) : k \in Keys} \cup {CallerRule.search}

Unpacked == [f \in Files |-> [s \in Slots |-> s]]

ApplyRule(text, rule) ==
  [f \in Files |-> [s \in Slots |->
     IF Matches(rule.files, f) /\ text[f][s] = rule.search
     THEN rule.replace ELSE text[f][s]]]

RECURSIVE ApplyRules(_, _)
ApplyRules(text, rules) ==
  IF rules = <<>> THEN text
  ELSE ApplyRules(ApplyRule(text, Head(rules)), Tail(rules))

Has(prefix) == prefix \in DOMAIN bucket

Put(prefix, namespace) ==
  [p \in DOMAIN bucket \cup {prefix} |-> IF p = prefix THEN namespace ELSE bucket[p]]

\* a prior successful attempt left this identity's content in place
Replay(prefix) ==
  /\ prefix # "deploy-live"
  /\ Has(prefix)
  /\ bucket[prefix].state = "uploaded"

\* cf.Distribution: the origin path of the default behavior is the deploy id.
\* The custom resource refers to the distribution (DistributionId), so the
\* distribution is brought up to date before the custom resource is run.
UpdateDistribution ==
  /\ pc = "synth"
  /\ originPath' = this.deployId
  /\ pc' = "activated"
  /\ UNCHANGED <<runs, root, environment, replaceValues, declared, call, zipDir,
                 this, sites, bucket, published>>

\* the custom resource starts, once the distribution it refers to is up to
\* date: DestinationBucketKeyPrefix is the deploy id
Staging ==
  /\ pc = "activated"
  /\ IF Replay(this.deployId)
     THEN /\ bucket' = bucket
          /\ pc' = "staged"
     ELSE /\ bucket' = Put(this.deployId,
                           [parts |-> <<>>, text |-> Unpacked,
                            state |-> IF this.assets = <<>> THEN "staged" ELSE "staging"])
          /\ pc' = IF this.assets = <<>> THEN "staged" ELSE "unpack"
  /\ UNCHANGED <<runs, root, environment, replaceValues, declared, call, zipDir,
                 this, sites, originPath, published>>

\* one of Sources is fetched and unpacked under the prefix
Unpack ==
  /\ pc = "unpack"
  /\ LET namespace == bucket[this.deployId]
         parts == Append(namespace.parts, this.assets[Len(namespace.parts) + 1])
         done == Len(parts) = Len(this.assets)
     IN  /\ bucket' = Put(this.deployId,
                          [namespace EXCEPT !.parts = parts,
                                            !.state = IF done THEN "staged" ELSE "staging"])
         /\ pc' = IF done THEN "staged" ELSE "unpack"
  /\ UNCHANGED <<runs, root, environment, replaceValues, declared, call, zipDir,
                 this, sites, originPath, published>>

\* ReplaceValues are applied to the files under the prefix
Substitute ==
  /\ pc = "staged"
  /\ LET namespace == bucket[this.deployId]
     IN  bucket' = Put(this.deployId,
                       [namespace EXCEPT !.text = ApplyRules(namespace.text, this.replaceValues),
                                         !.state = "uploaded"])
  /\ pc' = "uploaded"
  /\ UNCHANGED <<runs, root, environment, replaceValues, declared, call, zipDir,
                 this, sites, originPath, published>>

\* DistributionPaths ["/*"] are invalidated; the deploy is published
Invalidate ==
  /\ pc = "uploaded"
  /\ published' = Latest([run |-> runs, site |-> this, local |-> root.local,
                          bucket |-> bucket, originPath |-> originPath], published)
  /\ pc' = "published"
  /\ UNCHANGED <<runs, root, environment, replaceValues, declared, call, zipDir,
                 this, sites, bucket, originPath>>

\* the step that was about to run fails; the deploy ends
Fail ==
  /\ pc \in {"synth", "activated", "unpack", "staged", "uploaded"}
  /\ pc' = "failed"
  /\ UNCHANGED <<runs, root, environment, replaceValues, declared, call, zipDir,
                 this, sites, bucket, originPath, published>>

-----------------------------------------------------------------------------
(* Specifications *)

\* the deploys of a site, run after run
Next ==
  \/ StartRun(FewEnvironments, FewReplaceValues)
  \/ Constructor(FewBundles)
  \/ UpdateDistribution
  \/ Staging
  \/ Unpack
  \/ Substitute
  \/ Invalidate
  \/ Fail

Spec == Init /\ [][Next]_vars

\* the builds of a site, run after run
NextBuild ==
  \/ StartRun(FewEnvironments, FewReplaceValues)
  \/ Constructor(AllBundles)

SpecBuild == Init /\ [][NextBuild]_vars

\* the props of a site and what the constructor makes of them
NextProps ==
  \/ StartRun(AllEnvironments, AllReplaceValues)
  \/ SiblingSite
  \/ Constructor(FewBundles)

SpecProps == Init /\ [][NextProps]_vars

-----------------------------------------------------------------------------
(* Properties *)

Constructed == pc \in {"synth", "error"}
RealBuild == ~root.local /\ ~root.skipBuild

\* C1: in every state of a deploy the live read path names a namespace in
\* which every archive has been unpacked and every substitution rule applied.
\* Stated for the content-addressed prefixes: the slot of local development,
\* deploy-live, is left aside.
C1_LivePathFullyStaged ==
  (originPath # "" /\ originPath # "deploy-live") =>
    /\ Has(originPath)
    /\ bucket[originPath].state = "uploaded"

DiffersInOne(a, b) ==
  /\ Len(a) = Len(b)
  /\ Cardinality({i \in 1..Len(a) : a[i] # b[i]}) = 1

\* C2: two non-dev deploys with the same fingerprints in the same order get the
\* same identity, and two that differ in the fingerprint of a single archive
\* get different identities.
C2_IdentityFromFingerprints ==
  (Len(sites) = 2 /\ ~sites[1].local /\ ~sites[2].local) =>
    /\ sites[1].assets = sites[2].assets => sites[1].deployId = sites[2].deployId
    /\ DiffersInOne(sites[1].assets, sites[2].assets) =>
         sites[1].deployId # sites[2].deployId

C2_Witness ==
  /\ Len(sites) = 2 /\ ~sites[1].local /\ ~sites[2].local
  /\ Len(sites[1].assets) = 2
  /\ DiffersInOne(sites[1].assets, sites[2].assets)
  /\ sites[1].assets[1] = sites[2].assets[1]

Digests == {Md5(Join(s)) : s \in SeqsUpTo(Fingerprints \cup {StubHash}, MaxParts)}

\* C3: a dev deploy gets the sentinel deploy-live whatever the archives hold; a
\* non-dev deploy, the one shipping the stub included, gets deploy-<hash>,
\* which is never the sentinel.
C3_SentinelOnlyInDevMode ==
  pc = "synth" =>
    IF root.local
    THEN this.deployId = "deploy-live"
    ELSE /\ this.deployId # "deploy-live"
         /\ \E h \in Digests : this.deployId = "deploy-" \o h

C3_Witness ==
  /\ pc = "synth" /\ root.local /\ this.deployId = "deploy-live"
  /\ Len(sites) = 2 /\ ~sites[2].local
  /\ sites[2].assets = <<StubHash>> /\ sites[2].deployId # "deploy-live"

\* C4: the rules handed to the deployment are the caller's replaceValues
\* followed, for every environment variable in declaration order, by a
\* "**/*.js" rule and an "index.html" rule that search {{ NAME }} and replace
\* it by the variable's value.
C4_TwoRulesPerVariable ==
  pc = "synth" =>
    LET given == OrElse(call.replaceValues, <<>>)
        entries == OrElse(call.environment, <<>>)
        rules == this.replaceValues
    IN  /\ Len(rules) = Len(given) + 2 * Len(entries)
        /\ \A i \in 1..Len(given) : rules[i] = given[i]
        /\ \A i \in 1..Len(entries) :
             /\ rules[Len(given) + 2 * i - 1] =
                  [files |-> "**/*.js",
                   search |-> "{{ " \o entries[i].key \o " }}",
                   replace |-> entries[i].value]
             /\ rules[Len(given) + 2 * i] =
                  [files |-> "index.html",
                   search |-> "{{ " \o entries[i].key \o " }}",
                   replace |-> entries[i].value]

C4_Witness ==
  /\ pc = "synth"
  /\ call.environment = declared.environment
  /\ call.replaceValues = Obj(<<CallerRule>>)
  /\ Len(call.environment.val) = 2
  /\ call.environment.val[1].value # call.environment.val[2].value
  /\ Len(this.replaceValues) = 5

SameDeploy(a, b) ==
  /\ a.site.assets = b.site.assets
  /\ a.site.replaceValues = b.site.replaceValues
  /\ a.local = b.local

Repeated ==
  /\ pc = "published"
  /\ Len(published) = 2
  /\ published[1].run = runs
  /\ published[2].run + 1 = runs
  /\ SameDeploy(published[1], published[2])

\* C5: a deploy run twice in a row leaves the destination prefix, the content
\* of the destination bucket and the live read path as the first run left them.
C5_PublishTwiceIsPublishOnce ==
  Repeated =>
    /\ published[1].site.deployId = published[2].site.deployId
    /\ published[1].bucket = published[2].bucket
    /\ published[1].originPath = published[2].originPath
    /\ bucket = published[2].bucket
    /\ originPath = published[2].originPath

C5_Witness ==
  /\ Repeated
  /\ ~published[1].local
  /\ Len(published[1].site.assets) = 2
  /\ published[1].site.replaceValues # <<>>

\* C6: when a deploy fails before it is published, the live read path still
\* names the deploy published before it and that deploy's content is intact.
\* Stated for the deploys that are not local development, following a
\* published deploy that was not local development either.
C6_FailureKeepsPublished ==
  (pc \in {"error", "failed"} /\ published # <<>> /\ ~published[1].local /\ ~root.local) =>
    /\ originPath = published[1].originPath
    /\ Has(originPath)
    /\ bucket[originPath] = published[1].bucket[originPath]

\* C7: a deploy writes only under the prefix of its own deploy id, and never
\* into the namespace the live read path points to.  Stated for the deploys
\* that are not local development.
C7_StagingLeavesLiveAlone ==
  [][(bucket' # bucket /\ ~root.local) =>
       /\ \A p \in DOMAIN bucket :
            p # this.deployId => p \in DOMAIN bucket' /\ bucket'[p] = bucket[p]
       /\ this.deployId # originPath]_vars

EmptyOutput ==
  /\ call.site.pathExists /\ call.site.buildOk /\ call.site.outputExists
  /\ call.site.bundles = <<>>

C9_OnlyPartsOfThisBuild ==
  (pc = "synth" /\ RealBuild) =>
    /\ this.assets = call.site.bundles
    /\ DOMAIN zipDir = 0..(Len(this.assets) - 1)
    /\ \A i \in DOMAIN zipDir : zipDir[i] = this.assets[i + 1]

C9_Witness ==
  /\ pc = "synth" /\ RealBuild
  /\ Len(this.assets) = 1
  /\ 1 \in DOMAIN call.zipDir

DeclaredRules ==
  LET given == OrElse(declared.replaceValues, <<>>)
      entries == OrElse(declared.environment, <<>>)
  IN  given \o [i \in 1..2 * Len(entries) |->
                  [files |-> IF i % 2 = 1 THEN "**/*.js" ELSE "index.html",
                   search |-> "{{ " \o entries[(i + 1) \div 2].key \o " }}",
                   replace |-> entries[(i + 1) \div 2].value]]

\* C10: constructing a site leaves the caller's props as they were declared,
\* so that a site constructed from props another site was constructed from
\* gets rules that replace by the declared values and none of the other
\* site's rules.
C10_PropsUnmodified ==
  pc = "synth" =>
    /\ environment = declared.environment
    /\ replaceValues = declared.replaceValues
    /\ this.replaceValues = DeclaredRules

====
